---- MODULE Spec2Model ----
(***************************************************************************)
(* State-machine model of ICTrainer (ImageClassification_Task/             *)
(* ic_trainer_running.py): the epoch loop of fit(), the key-value store    *)
(* population, train_one_epoch / test_one_epoch, merge_model_weights and   *)
(* the personalization transition.                                         *)
(*                                                                         *)
(* Participants are the positions 1..Len(client_ids) of the keys of        *)
(* self.clients in insertion order; the ServerCounterpart of participant c *)
(* is the entry of self.sc_clients under the same key.                     *)
(* A segment's parameter state (a state_dict) is modelled as one rational  *)
(* number [n, d] in lowest terms.                                          *)
(***************************************************************************)
EXTENDS Integers, Sequences, FiniteSets, TLC

(* ------------------------------ bounds --------------------------------- *)
MaxClients == 2
MaxEpochs == 3
MaxRefresh == 2
MaxFactor == 2
MaxSamples == 2
\* len(client.test_dataset) of every participant
TestSamples == 1
MaxFaults == 1
\* args.batch_size / args.test_batch_size used for every run of the model
BatchSize == 1

(* number_of_clients <= 10 is asserted by init_clients_with_data *)
ClientLimit == 10

VARIABLES
  args,                 \* run configuration (self.args)
  pooling_mode,         \* self.pooling_mode
  num_clients,          \* self.num_clients
  client_ids,           \* self.client_ids: the keys of self.clients, in order
  sc_clients,           \* self.sc_clients: whether it was created, and its keys
  built_segments,       \* segments that setup assigned to the participants and counterparts
  train_len,            \* len(client.train_dataset), per participant
  test_len,             \* len(client.test_dataset), per participant
  pc,                   \* position of fit()
  epoch,                \* loop variable of fit()
  cur,                  \* participant of the running per-participant loop
  it,                   \* iteration of the running per-iteration loop
  error,                \* exception that left fit(), "none" while running
  personalization_mode, \* self.personalization_mode
  front,                \* client.front_model state, per participant
  center_front,         \* sc_client.center_front_model state, per participant
  center_back,          \* sc_client.center_back_model state, per participant
  back,                 \* client.back_model state, per participant
  frozen,               \* freeze flag of center_back_model, per participant
  center_opt_bound,     \* center_optimizer holds the current center_back params
  back_opt_bound,       \* back_optimizer holds the current back params
  kv_flag,              \* client.kv_flag
  kv_test_flag,         \* client.kv_test_flag
  sc_kv_flag,           \* sc_client.kv_flag
  sc_kv_test_flag,      \* sc_client.kv_test_flag
  num_iterations,       \* client.num_iterations
  kv_store,             \* activation caches: last population per participant and mode
  sample_keys,          \* per participant and mode: client.key / test_key (produced),
                        \* sc_client.batchkeys / test_batchkeys (held), cached keys
  populate_calls,       \* tags of the populate_key_value_store calls so far
  iter_ops,             \* operations executed by the latest train/test iteration
  n_train_f1,           \* len(overall_f1['train'])
  n_test_f1,            \* len(overall_f1['test'])
  finalized,            \* epoch whose metrics were finalized last, per mode
  client_f1,            \* client.train_f1[-1] / client.test_f1[-1], per participant
  overall_f1,           \* overall_f1['train'][-1] / overall_f1['test'][-1]
  past_f1,              \* the entries before [-1] of the overall and per-participant lists
  iters_done,           \* iterations executed in the latest epoch, per participant and mode
  inference_report,     \* participants evaluated and average printed by the latest inference()
  last_merge,           \* record of the latest merge_model_weights call
  faults_left           \* environment faults still to be injected

vars == <<args, pooling_mode, num_clients, client_ids, sc_clients, built_segments,
          train_len, test_len,
          pc, epoch, cur, it, error, personalization_mode, front, center_front,
          center_back, back, frozen, center_opt_bound, back_opt_bound, kv_flag, kv_test_flag,
          sc_kv_flag, sc_kv_test_flag,
          num_iterations, kv_store, sample_keys, populate_calls, iter_ops, n_train_f1,
          n_test_f1, finalized, client_f1, overall_f1, past_f1, iters_done,
          inference_report, last_merge, faults_left>>

config == <<args, pooling_mode, num_clients, client_ids, sc_clients, built_segments,
           train_len, test_len>>
frozen_segments == <<front, center_front>>
optimizers == <<center_opt_bound, back_opt_bound>>
kv == <<kv_flag, kv_test_flag, sc_kv_flag, sc_kv_test_flag, num_iterations, kv_store,
        populate_calls>>
metrics == <<n_train_f1, n_test_f1, finalized>>
scores == <<client_f1, overall_f1, iters_done>>

(* --------------------------- rational numbers -------------------------- *)
Abs(x) == IF x < 0 THEN -x ELSE x

RECURSIVE GCD(_, _)
GCD(a, b) == IF b = 0 THEN a ELSE GCD(b, a % b)

Rat(n, d) == LET g == GCD(Abs(n), d) IN [n |-> n \div g, d |-> d \div g]

RatInt(k) == [n |-> k, d |-> 1]

RatAdd(a, b) == Rat(a.n * b.d + b.n * a.d, a.d * b.d)

RECURSIVE SumSeq(_)
SumSeq(s) == IF Len(s) = 0 THEN 0 ELSE Head(s) + SumSeq(Tail(s))

RatDiv(a, k) == Rat(a.n, a.d * k)

RECURSIVE RatSum(_)
RatSum(s) == IF Len(s) = 0 THEN RatInt(0) ELSE RatAdd(Head(s), RatSum(Tail(s)))

LCM(a, b) == (a * b) \div GCD(a, b)

RECURSIVE LcmSeq(_)
LcmSeq(s) == IF Len(s) = 0 THEN 1 ELSE LCM(Head(s), LcmSeq(Tail(s)))

(* ----------------------------- participants ---------------------------- *)
\* generate_random_client_ids (random_clients_generator.py lines 4-8): n
\* independent draws of a random 4-character id. An id is written as the
\* position of its first draw, so every draw is a new id or repeats an earlier one.
GeneratedIds(n) ==
  { s \in [1..n -> 1..n] :
      \A i \in 1..n : s[i] = i \/ (s[i] < i /\ s[s[i]] = s[i]) }

\* generate_random_clients (lines 11-15): the keys of the dict built from the
\* drawn ids, in insertion order; a repeated id replaces the earlier entry
RECURSIVE DictKeys(_)
DictKeys(ids) ==
  IF Len(ids) = 0 THEN <<>>
  ELSE LET rest == DictKeys(SubSeq(ids, 1, Len(ids) - 1))
           last == ids[Len(ids)]
       IN IF \E i \in 1..Len(rest) : rest[i] = last THEN rest
          ELSE Append(rest, last)

\* the key 'pooled_client' of init_clients_with_data line 84
PooledClient == 0

\* init_clients_with_data lines 80-86: self.client_ids
SetupClientIds(ids, pool) ==
  IF pool THEN <<PooledClient>> ELSE DictKeys(ids)

\* init_clients_server_copy lines 151-162: a failed import returns before
\* self.sc_clients is assigned; otherwise one entry per element of client_ids
SetupServerCopy(imported, ids) ==
  IF imported THEN [defined |-> TRUE, keys |-> ids]
  ELSE [defined |-> FALSE, keys |-> <<>>]

ClientIds == 1..Len(client_ids)

AllSegments == {"front", "center_front", "center_back", "back"}

\* the segment module lacks no attribute or one of the four factory functions
FactoryGaps == {{}} \cup {{s} : s \in AllSegments}

\* init_client_models_optims lines 119-140 and init_clients_server_copy lines
\* 164-185: a factory call that raises AttributeError is printed and the loop
\* continues with the next participant, which skips the second segment of the
\* same side; the participant and its counterpart stay in their mappings
SetupSegments(missing) ==
  {s \in {"front", "back"} : "front" \notin missing /\ s \notin missing}
    \cup {s \in {"center_front", "center_back"} :
            "center_front" \notin missing /\ s \notin missing}

\* len(client.train_DataLoader) / len(client.test_DataLoader)
LenLoader(n, bs) == (n + bs - 1) \div bs

NoMerge == [epoch |-> -1, cpool |-> {}, bpool |-> {}, cpre |-> <<>>, bpre |-> <<>>,
            cerr |-> FALSE, berr |-> FALSE, cgot |-> {}, bgot |-> {}]

EmptyCache == [tag |-> -2, puts |-> 0]

Configs ==
  { a \in [epochs : 0..MaxEpochs, kv_refresh_rate : 0..MaxRefresh,
           personalize : BOOLEAN, p_epoch : 0..MaxEpochs,
           kv_factor : 1..MaxFactor, pool : BOOLEAN,
           number_of_clients : 1..MaxClients] :
      /\ a.number_of_clients <= ClientLimit
      \* p_epoch is read only when personalize is set
      /\ (~a.personalize => a.p_epoch = 0)
      \* a threshold beyond the last epoch is never reached, like p_epoch = epochs
      /\ a.p_epoch <= a.epochs }

\* the trainer as __init__ (lines 829-894) leaves it
Setup ==
  /\ args \in Configs
  /\ pooling_mode = args.pool
  /\ num_clients = IF args.pool THEN 1 ELSE args.number_of_clients
  /\ \E ids \in GeneratedIds(num_clients) :
       client_ids = SetupClientIds(ids, args.pool)
  /\ \E imported \in BOOLEAN :
       sc_clients = SetupServerCopy(imported, client_ids)
  \* a module that cannot be imported has no factory to call
  /\ \E missing \in {m \in FactoryGaps : sc_clients.defined \/ m = {}} :
       built_segments = SetupSegments(missing)
  /\ train_len \in [ClientIds -> 0..MaxSamples]
  /\ test_len = [c \in ClientIds |-> TestSamples]
  /\ epoch = 0
  /\ cur = 0
  /\ it = 0
  /\ error = "none"
  /\ personalization_mode = FALSE
  /\ front = [c \in ClientIds |-> RatInt(0)]
  /\ center_front = [c \in ClientIds |-> RatInt(0)]
  /\ center_back = [c \in ClientIds |-> RatInt(0)]
  /\ back = [c \in ClientIds |-> RatInt(0)]
  /\ frozen = [c \in ClientIds |-> FALSE]
  /\ center_opt_bound = [c \in ClientIds |-> TRUE]
  /\ back_opt_bound = [c \in ClientIds |-> TRUE]
  /\ kv_flag = [c \in ClientIds |-> 0]
  /\ kv_test_flag = [c \in ClientIds |-> 0]
  /\ sc_kv_flag = [c \in ClientIds |-> 0]
  /\ sc_kv_test_flag = [c \in ClientIds |-> 0]
  /\ num_iterations = [c \in ClientIds |-> 0]
  /\ kv_store = [c \in ClientIds |-> [train |-> EmptyCache, test |-> EmptyCache]]
  /\ sample_keys = [c \in ClientIds |->
                      [train |-> [produced |-> {}, held |-> {}, cached |-> {}],
                       test |-> [produced |-> {}, held |-> {}, cached |-> {}]]]
  /\ populate_calls = <<>>
  /\ iter_ops = <<>>
  /\ n_train_f1 = 0
  /\ n_test_f1 = 0
  /\ finalized = [train |-> -1, test |-> -1]
  /\ client_f1 = [c \in ClientIds |-> [train |-> RatInt(0), test |-> RatInt(0)]]
  /\ overall_f1 = [train |-> RatInt(0), test |-> RatInt(0)]
  /\ past_f1 = [overall |-> [train |-> <<>>, test |-> <<>>],
                client |-> [c \in ClientIds |-> [train |-> <<>>, test |-> <<>>]]]
  /\ iters_done = [c \in ClientIds |-> [train |-> 0, test |-> 0]]
  /\ inference_report = [evaluated |-> 0, average |-> RatInt(0)]
  /\ last_merge = NoMerge
  /\ faults_left = MaxFaults

\* the constructed trainer, about to run fit(), with a segment module that
\* defines the four factory functions
Init ==
  /\ Setup
  /\ built_segments = AllSegments
  /\ pc = "fit"

(* ------------------------------- fit() --------------------------------- *)
\* the refresh test taken one epoch late
RefreshDue_Late(e) == (e + 1) % args.kv_refresh_rate = 0

\* fit line 790: the refresh test of an epoch
RefreshDue(e) == e % args.kv_refresh_rate = 0

\* the personalization test taken one epoch late
PersonalizeDue_OffByOne(e) == args.personalize /\ e = args.p_epoch + 1

\* fit lines 795-796: the personalization test of an epoch
PersonalizeDue(e) == args.personalize /\ e = args.p_epoch

\* the populate_key_value_store call of fit line 780 is tagged -1,
\* the call of line 792 with its epoch
FitBegin ==
  /\ pc = "fit"
  /\ IF args.kv_refresh_rate = 0
       THEN /\ pc' = "kv_train_begin"
            /\ populate_calls' = Append(populate_calls, -1)
       ELSE /\ pc' = "epoch_head"
            /\ UNCHANGED populate_calls
  /\ UNCHANGED <<config, epoch, cur, it,
                 error, personalization_mode, front, center_front, center_back, back,
                 frozen,
                 center_opt_bound, back_opt_bound, kv_flag, kv_test_flag,
                 num_iterations, kv_store, iter_ops, n_train_f1, n_test_f1,
                 finalized, last_merge, faults_left>>
  /\ UNCHANGED scores
  /\ UNCHANGED past_f1
  /\ UNCHANGED sample_keys
  /\ UNCHANGED <<sc_kv_flag, sc_kv_test_flag>>
  /\ UNCHANGED inference_report

\* fit lines 786-793: loop test and refresh test
EpochHead ==
  /\ pc = "epoch_head"
  /\ IF epoch >= args.epochs
       THEN /\ pc' = "final_metrics"
            /\ UNCHANGED populate_calls
       ELSE IF args.kv_refresh_rate # 0 /\ RefreshDue(epoch)
       THEN /\ pc' = "kv_train_begin"
            /\ populate_calls' = Append(populate_calls, epoch)
       ELSE /\ pc' = "personalize"
            /\ UNCHANGED populate_calls
  /\ UNCHANGED <<config, epoch, cur, it,
                 error, personalization_mode, front, center_front, center_back, back,
                 frozen,
                 center_opt_bound, back_opt_bound, kv_flag, kv_test_flag,
                 num_iterations, kv_store, iter_ops, n_train_f1, n_test_f1,
                 finalized, last_merge, faults_left>>
  /\ UNCHANGED scores
  /\ UNCHANGED past_f1
  /\ UNCHANGED sample_keys
  /\ UNCHANGED <<sc_kv_flag, sc_kv_test_flag>>
  /\ UNCHANGED inference_report

(* ----------------------- populate_key_value_store ---------------------- *)
\* tag of the populate_key_value_store call that is running or ran last
PopulateTag == populate_calls[Len(populate_calls)]

\* store_forward_mappings_kv('train'), lines 342-346; line 344 reads
\* self.sc_clients, which does not exist after a failed import
StoreTrainBegin ==
  /\ pc = "kv_train_begin"
  /\ IF sc_clients.defined
       THEN /\ kv_flag' = [c \in ClientIds |-> 1]
            /\ sc_kv_flag' = [c \in ClientIds |-> 1]
            /\ num_iterations' =
                 [c \in ClientIds |-> LenLoader(train_len[c], BatchSize)]
            /\ cur' = 1
            /\ pc' = "kv_train"
            /\ UNCHANGED error
       ELSE /\ kv_flag' = [kv_flag EXCEPT ![1] = 1]
            /\ error' = "AttributeError"
            /\ pc' = "aborted"
            /\ UNCHANGED <<num_iterations, cur, sc_kv_flag>>
  /\ UNCHANGED <<config, epoch, it,
                 personalization_mode, front, center_front, center_back, back,
                 frozen,
                 center_opt_bound, back_opt_bound, kv_test_flag, kv_store,
                 populate_calls, iter_ops, n_train_f1, n_test_f1, finalized,
                 last_merge, faults_left>>
  /\ UNCHANGED scores
  /\ UNCHANGED past_f1
  /\ UNCHANGED sample_keys
  /\ UNCHANGED sc_kv_test_flag
  /\ UNCHANGED inference_report

\* a population that leaves the population flag of the participant set
FlagsAfterPopulation_LeftSet(flags, c) == flags

\* lines 360 and 385: the population flag of a participant is cleared when its
\* population ends
FlagsAfterPopulation(flags, c) == [flags EXCEPT ![c] = 0]

\* a population that leaves the flag of the counterpart set
CounterpartFlagsAfterPopulation_LeftSet(flags, c) == flags

\* lines 361 and 386: the population flag of the counterpart is cleared with
\* the flag of its participant
CounterpartFlagsAfterPopulation(flags, c) == [flags EXCEPT ![c] = 0]

\* a population that fills the train cache only
PopulationSteps_TrainOnly(c, mode) ==
  IF mode = "train" THEN num_iterations[c] * args.kv_factor ELSE 0

\* number of population steps of one participant, lines 351 and 375
PopulationSteps(c, mode) ==
  IF mode = "train" THEN num_iterations[c] * args.kv_factor
  ELSE LenLoader(test_len[c], BatchSize)

\* the sample keys of the batch that the i-th front pass of a loop over the
\* data of participant c produces: the key counter wraps modulo the size of
\* the set, and every loop makes whole passes
BatchKeys(c, i, mode) ==
  LET n == IF mode = "train" THEN train_len[c] ELSE test_len[c]
  IN {k \in 0..(n - 1) : k \div BatchSize = i % LenLoader(n, BatchSize)}

\* a counterpart that keeps the keys it held
BatchKeysSent_Stale(produced, held) == held

\* lines 356, 380, 437 and 535: sc_client.batchkeys = client.key (test_batchkeys =
\* client.test_key) after the front pass, before the center-front pass
BatchKeysSent(produced, held) == produced

\* the keys of participant c after the front passes of steps 0..(steps - 1):
\* each center-front pass of a population stores under the keys the
\* counterpart holds
KeysAfterPasses(c, mode, steps, writes) ==
  LET old == sample_keys[c][mode]
      sent(i) == BatchKeysSent(BatchKeys(c, i, mode), old.held)
  IN IF steps = 0 THEN old
     ELSE [produced |-> BatchKeys(c, steps - 1, mode),
           held |-> sent(steps - 1),
           cached |-> IF writes
                        THEN old.cached \cup UNION {sent(i) : i \in 0..(steps - 1)}
                        ELSE old.cached]

\* the first population step of a participant calls forward_front_key_value and
\* forward_center_front (lines 353-358, 377-382), which read front_model and
\* center_front_model: an attribute that setup never assigned raises
FrontPassRaises(c, mode) ==
  /\ PopulationSteps(c, mode) > 0
  /\ ~({"front", "center_front"} \subseteq built_segments)

\* store_forward_mappings_kv('train'), lines 348-361, one participant
StoreTrainClient ==
  /\ pc = "kv_train"
  /\ IF FrontPassRaises(cur, "train")
       THEN /\ error' = "AttributeError"
            /\ pc' = "aborted"
            /\ UNCHANGED <<kv_store, kv_flag, sc_kv_flag, cur, sample_keys>>
       ELSE /\ kv_store' = [kv_store EXCEPT ![cur].train =
                     [tag |-> PopulateTag, puts |-> PopulationSteps(cur, "train")]]
            /\ sample_keys' = [sample_keys EXCEPT ![cur].train =
                 KeysAfterPasses(cur, "train", PopulationSteps(cur, "train"), TRUE)]
            /\ kv_flag' = FlagsAfterPopulation(kv_flag, cur)
            /\ sc_kv_flag' = CounterpartFlagsAfterPopulation(sc_kv_flag, cur)
            /\ UNCHANGED error
            /\ IF cur < Len(client_ids)
                 THEN /\ cur' = cur + 1
                      /\ pc' = "kv_train"
                 ELSE /\ cur' = 0
                      /\ pc' = "kv_test_begin"
  /\ UNCHANGED <<config, epoch, it,
                 personalization_mode, front, center_front, center_back, back,
                 frozen,
                 center_opt_bound, back_opt_bound, kv_test_flag, num_iterations,
                 populate_calls, iter_ops, n_train_f1, n_test_f1, finalized,
                 last_merge, faults_left>>
  /\ UNCHANGED scores
  /\ UNCHANGED past_f1
  /\ UNCHANGED sc_kv_test_flag
  /\ UNCHANGED inference_report

\* store_forward_mappings_kv('test'), lines 365-369
StoreTestBegin ==
  /\ pc = "kv_test_begin"
  /\ kv_test_flag' = [c \in ClientIds |-> 1]
  /\ sc_kv_test_flag' = [c \in ClientIds |-> 1]
  /\ cur' = 1
  /\ pc' = "kv_test"
  /\ UNCHANGED <<config, epoch, it,
                 error, personalization_mode, front, center_front, center_back, back,
                 frozen,
                 center_opt_bound, back_opt_bound, kv_flag, num_iterations, kv_store,
                 populate_calls, iter_ops, n_train_f1, n_test_f1, finalized,
                 last_merge, faults_left>>
  /\ UNCHANGED scores
  /\ UNCHANGED past_f1
  /\ UNCHANGED sample_keys
  /\ UNCHANGED sc_kv_flag
  /\ UNCHANGED inference_report

\* where fit() continues after populate_key_value_store returns:
\* line 780 returns into the loop head, line 792 into the personalization test
AfterPopulate == IF PopulateTag = -1 THEN "epoch_head" ELSE "personalize"

\* store_forward_mappings_kv('test'), lines 372-386, one participant
StoreTestClient ==
  /\ pc = "kv_test"
  /\ IF FrontPassRaises(cur, "test")
       THEN /\ error' = "AttributeError"
            /\ pc' = "aborted"
            /\ UNCHANGED <<kv_store, kv_test_flag, sc_kv_test_flag, cur, sample_keys>>
       ELSE /\ kv_store' = [kv_store EXCEPT ![cur].test =
                     [tag |-> PopulateTag, puts |-> PopulationSteps(cur, "test")]]
            /\ sample_keys' = [sample_keys EXCEPT ![cur].test =
                 KeysAfterPasses(cur, "test", PopulationSteps(cur, "test"), TRUE)]
            /\ kv_test_flag' = FlagsAfterPopulation(kv_test_flag, cur)
            /\ sc_kv_test_flag' = CounterpartFlagsAfterPopulation(sc_kv_test_flag, cur)
            /\ UNCHANGED error
            /\ IF cur < Len(client_ids)
                 THEN /\ cur' = cur + 1
                      /\ pc' = "kv_test"
                 ELSE /\ cur' = 0
                      /\ pc' = AfterPopulate
  /\ UNCHANGED <<config, epoch, it,
                 personalization_mode, front, center_front, center_back, back,
                 frozen,
                 center_opt_bound, back_opt_bound, kv_flag, num_iterations,
                 populate_calls, iter_ops, n_train_f1, n_test_f1, finalized,
                 last_merge, faults_left>>
  /\ UNCHANGED scores
  /\ UNCHANGED past_f1
  /\ UNCHANGED sc_kv_flag
  /\ UNCHANGED inference_report

(* ---------------------------- personalization -------------------------- *)
\* parameter states that saved checkpoint files of an earlier run may hold
CkptVals == {0, 5}

\* the checkpoint files of the participants: all with the same state, or the
\* first participant's apart from the others
CheckpointFiles ==
  {[c \in ClientIds |-> v] : v \in CkptVals}
    \cup {[c \in ClientIds |-> IF c = 1 THEN 5 ELSE 0]}

\* fit lines 795-796, personalization not due at this epoch
NoPersonalize ==
  /\ pc = "personalize"
  /\ ~PersonalizeDue(epoch)
  /\ pc' = "train_begin"
  /\ UNCHANGED <<config, epoch, cur, it, error, personalization_mode, frozen_segments,
                 center_back, back, frozen, optimizers, kv, iter_ops, metrics,
                 last_merge, faults_left>>
  /\ UNCHANGED scores
  /\ UNCHANGED past_f1
  /\ UNCHANGED sample_keys
  /\ UNCHANGED inference_report

\* fit lines 797-799: load_best_models (lines 680-705) reads the checkpoint files
\* of every participant and replaces the four segment objects, the optimizers
\* keep the parameters of the replaced objects; personalize (lines 226-233)
\* then freezes every center_back_model; a factory function that the module
\* lacks raises in load_best_models (lines 689-698)
Personalize ==
  /\ pc = "personalize"
  /\ PersonalizeDue(epoch)
  /\ personalization_mode' = TRUE
  /\ IF built_segments = AllSegments
       THEN /\ \E ck \in CheckpointFiles :
                 /\ front' = [c \in ClientIds |-> RatInt(ck[c])]
                 /\ center_front' = [c \in ClientIds |-> RatInt(ck[c])]
                 /\ center_back' = [c \in ClientIds |-> RatInt(ck[c])]
                 /\ back' = [c \in ClientIds |-> RatInt(ck[c])]
            /\ center_opt_bound' = [c \in ClientIds |-> FALSE]
            /\ back_opt_bound' = [c \in ClientIds |-> FALSE]
            /\ frozen' = [c \in ClientIds |-> TRUE]
            /\ pc' = "train_begin"
            /\ UNCHANGED error
       ELSE /\ error' = "AttributeError"
            /\ pc' = "aborted"
            /\ UNCHANGED <<frozen_segments, center_back, back, frozen, optimizers>>
  /\ UNCHANGED <<config, epoch, cur, it, kv, iter_ops, metrics, last_merge,
                 faults_left>>
  /\ UNCHANGED scores
  /\ UNCHANGED past_f1
  /\ UNCHANGED sample_keys
  /\ UNCHANGED inference_report

\* fit lines 797-798: save_models is never called by fit(), so the checkpoint
\* files exist only when an earlier run left them; torch.load of a missing
\* file raises and the exception leaves fit()
PersonalizeNoCheckpoint ==
  /\ pc = "personalize"
  /\ PersonalizeDue(epoch)
  /\ "front" \in built_segments
  /\ personalization_mode' = TRUE
  /\ error' = "FileNotFoundError"
  /\ pc' = "aborted"
  /\ UNCHANGED <<config, epoch, cur, it, frozen_segments, center_back, back, frozen,
                 optimizers, kv, iter_ops, metrics, last_merge, faults_left>>
  /\ UNCHANGED scores
  /\ UNCHANGED past_f1
  /\ UNCHANGED sample_keys
  /\ UNCHANGED inference_report

(* ---------------------------- train_one_epoch -------------------------- *)
\* a list that is created anew at every epoch
EarlierAfterAppend_Reset(earlier, n, last) == <<>>

\* list.append(0) of lines 305, 317, 423 and 516 on a list of n entries: the
\* entry that was last becomes an entry of an earlier epoch
EarlierAfterAppend(earlier, n, last) ==
  IF n = 0 THEN earlier ELSE Append(earlier, last)

\* create_iters(mode) and the overall_f1[mode] entry of a new epoch
PastAfterNewEpoch(mode, n) ==
  [overall |-> [past_f1.overall EXCEPT ![mode] =
                  EarlierAfterAppend(@, n, overall_f1[mode])],
   client |-> [c \in ClientIds |->
                 [past_f1.client[c] EXCEPT ![mode] =
                    EarlierAfterAppend(@, n, client_f1[c][mode])]]]

\* an iteration that steps the center optimizer before the back optimizer
TrainOps_CenterStepFirst ==
  <<"forward_front_key_value", "forward_center_front", "forward_center_back",
    "forward_back", "calculate_loss", "loss_backward", "backward_center",
    "center_optimizer_step", "center_optimizer_zero_grad", "step_back",
    "zero_grad_back", "calculate_train_metric">>

\* the calls of one training iteration, lines 435-455, in program order
TrainOps == <<"forward_front_key_value", "forward_center_front",
              "forward_center_back", "forward_back", "calculate_loss",
              "loss_backward", "backward_center", "step_back", "zero_grad_back",
              "center_optimizer_step", "center_optimizer_zero_grad",
              "calculate_train_metric">>

\* the forward/backward operations of an iteration (lines 435-448, 533-540)
NumTrainFwdBwd == 7
NumTestFwd == 5

\* fit lines 803-805 switch back_model and center_back_model of every participant
\* to training mode, which raises when setup never assigned them; then
\* train_one_epoch lines 421-423 (create_iters and the overall_f1 entry)
TrainBegin ==
  /\ pc = "train_begin"
  /\ IF {"back", "center_back"} \subseteq built_segments
       THEN /\ n_train_f1' = n_train_f1 + 1
            /\ client_f1' =
                 [c \in ClientIds |-> [client_f1[c] EXCEPT !.train = RatInt(0)]]
            /\ overall_f1' = [overall_f1 EXCEPT !.train = RatInt(0)]
            /\ past_f1' = PastAfterNewEpoch("train", n_train_f1)
            /\ iters_done' = [c \in ClientIds |-> [iters_done[c] EXCEPT !.train = 0]]
            /\ cur' = 1
            /\ it' = 0
            /\ pc' = "train_iter"
            /\ UNCHANGED error
       ELSE /\ error' = "AttributeError"
            /\ pc' = "aborted"
            /\ UNCHANGED <<n_train_f1, cur, it, past_f1>>
            /\ UNCHANGED scores
  /\ UNCHANGED <<config, epoch, personalization_mode, frozen_segments,
                 center_back, back, frozen, optimizers, kv, iter_ops, n_test_f1,
                 finalized, last_merge, faults_left>>
  /\ UNCHANGED sample_keys
  /\ UNCHANGED inference_report

\* optimizers built over every segment of the network
OptimizedSegments_All == {"front", "center_front", "center_back", "back"}

\* lines 131 and 176: the optimizers are built over the parameters of back_model
\* and of center_back_model only
OptimizedSegments == {"center_back", "back"}

\* gradient step of the back optimizer / the center optimizer on participant c
BackGrad(c) == RatInt(c)
CenterGrad(c) == RatInt(c + 1)

\* client.calculate_train_metric() / calculate_test_metric(): the score of one
\* iteration
F1Score(c, i, mode) == IF mode = "train" THEN c + i ELSE c + i + 1

\* a center optimizer that always reaches the current center_back segment
CenterStepApplies_Always(c) == TRUE

\* client.step_back() (line 449) changes the current back segment only when the
\* back optimizer holds its parameters
BackStepApplies(c) == back_opt_bound[c]

\* center_optimizer.step() (line 452) changes the current center_back segment
\* only when the optimizer holds its parameters and they are not frozen
CenterStepApplies(c) == center_opt_bound[c] /\ ~frozen[c]

\* forward_front_key_value / forward_center_front (and their _test forms)
\* write into the caches while the population flag is set and read them otherwise
WritesCache(c, mode) ==
  IF mode = "train" THEN kv_flag[c] = 1 ELSE kv_test_flag[c] = 1

\* the caches after the front passes of one iteration of participant c
CacheAfterIteration(c, mode) ==
  IF WritesCache(c, mode)
    THEN [kv_store EXCEPT ![c][mode].puts = @ + 1]
    ELSE kv_store

\* a loop that stops after the first iteration of a participant
IterationsLeft_FirstOnly(c) == it < 1 /\ it < num_iterations[c]

\* line 434: range(client.num_iterations)
IterationsLeft(c) == it < num_iterations[c]

\* a testing iteration that also runs the backward pass and the optimizer steps
TestStepApplies_Trains == TRUE

\* lines 545-553: the backward pass and the optimizer steps of a testing
\* iteration are commented out, and test_one_epoch runs under torch.no_grad()
TestStepApplies == FALSE

\* the keys of participant c after the front pass of iteration i
KeysAfterIteration(c, i, mode) ==
  LET old == sample_keys[c][mode]
      sent == BatchKeysSent(BatchKeys(c, i, mode), old.held)
  IN [produced |-> BatchKeys(c, i, mode),
      held |-> sent,
      cached |-> IF WritesCache(c, mode) THEN old.cached \cup sent ELSE old.cached]

\* the cache lookup of the running iteration finds the keys the counterpart
\* holds
CacheReady(c, mode) ==
  /\ kv_store[c][mode].puts > 0
  /\ KeysAfterIteration(c, it, mode).held \subseteq KeysAfterIteration(c, it, mode).cached

\* one iteration of train_one_epoch, lines 434-458
TrainIter ==
  /\ pc = "train_iter"
  /\ IterationsLeft(cur)
  /\ IF CacheReady(cur, "train")
       THEN /\ back' = IF "back" \in OptimizedSegments /\ BackStepApplies(cur)
                         THEN [back EXCEPT ![cur] = RatAdd(@, BackGrad(cur))]
                         ELSE back
            /\ front' = IF "front" \in OptimizedSegments /\ BackStepApplies(cur)
                          THEN [front EXCEPT ![cur] = RatAdd(@, BackGrad(cur))]
                          ELSE front
            /\ center_back' =
                 IF "center_back" \in OptimizedSegments /\ CenterStepApplies(cur)
                   THEN [center_back EXCEPT ![cur] = RatAdd(@, CenterGrad(cur))]
                   ELSE center_back
            /\ center_front' =
                 IF "center_front" \in OptimizedSegments /\ CenterStepApplies(cur)
                   THEN [center_front EXCEPT ![cur] = RatAdd(@, CenterGrad(cur))]
                   ELSE center_front
            /\ iter_ops' = TrainOps
            /\ client_f1' = [client_f1 EXCEPT ![cur].train =
                                RatAdd(@, RatInt(F1Score(cur, it, "train")))]
            /\ iters_done' = [iters_done EXCEPT ![cur].train = @ + 1]
            /\ it' = it + 1
            /\ UNCHANGED <<pc, error>>
       ELSE /\ iter_ops' = SubSeq(TrainOps, 1, 2)
            /\ error' = "KeyError"
            /\ pc' = "aborted"
            /\ UNCHANGED <<back, center_back, frozen_segments, it, client_f1,
                           iters_done>>
  /\ kv_store' = CacheAfterIteration(cur, "train")
  /\ sample_keys' = [sample_keys EXCEPT ![cur].train =
                       KeysAfterIteration(cur, it, "train")]
  /\ UNCHANGED overall_f1
  /\ UNCHANGED <<config, epoch, cur, personalization_mode, frozen,
                 optimizers, kv_flag, kv_test_flag, num_iterations, populate_calls,
                 metrics, last_merge, faults_left>>
  /\ UNCHANGED past_f1
  /\ UNCHANGED <<sc_kv_flag, sc_kv_test_flag>>
  /\ UNCHANGED inference_report

\* train_one_epoch lines 429-434: the next participant, or the end of the loops
TrainLoop ==
  /\ pc = "train_iter"
  /\ ~IterationsLeft(cur)
  /\ IF cur < Len(client_ids)
       THEN /\ cur' = cur + 1
            /\ it' = 0
            /\ pc' = "train_iter"
       ELSE /\ cur' = 0
            /\ it' = 0
            /\ pc' = "train_metrics"
  /\ UNCHANGED <<config, epoch, error, personalization_mode, frozen_segments,
                 center_back, back, frozen, optimizers, kv, iter_ops, metrics,
                 last_merge, faults_left>>
  /\ UNCHANGED scores
  /\ UNCHANGED past_f1
  /\ UNCHANGED sample_keys
  /\ UNCHANGED inference_report

\* the epoch metrics of one mode (lines 463-488 and 564-583): every
\* participant's aggregate is divided by its iteration count and added to the
\* overall entry, which is then divided by self.num_clients; the division of a
\* participant with divisor 0 raises and leaves the later ones untouched
FinalizeF1(mode, divisor) ==
  LET zero == {c \in ClientIds : divisor[c] = 0}
      stop == IF zero = {} THEN Len(client_ids) + 1
              ELSE CHOOSE c \in zero : \A d \in zero : c <= d
      fin(c) == RatDiv(client_f1[c][mode], divisor[c])
      total == RatSum([c \in 1..(stop - 1) |-> fin(c)])
  IN [raised |-> zero # {},
      client_f1 |-> [c \in ClientIds |->
                       IF c < stop THEN [client_f1[c] EXCEPT ![mode] = fin(c)]
                       ELSE client_f1[c]],
      overall_f1 |-> [overall_f1 EXCEPT ![mode] =
                        IF zero = {} THEN RatDiv(total, num_clients) ELSE total]]

\* train_one_epoch lines 461-498: the epoch metrics, then the merge unless pooling;
\* train_f1[-1] is the integer 0 for a participant without iterations, and
\* dividing it by num_iterations = 0 raises
TrainMetrics ==
  /\ pc = "train_metrics"
  /\ LET o == FinalizeF1("train", [c \in ClientIds |-> num_iterations[c]])
     IN /\ client_f1' = o.client_f1
        /\ overall_f1' = o.overall_f1
        /\ IF o.raised
             THEN /\ error' = "ZeroDivisionError"
                  /\ pc' = "aborted"
                  /\ UNCHANGED finalized
             ELSE /\ finalized' = [finalized EXCEPT !.train = epoch]
                  /\ pc' = IF pooling_mode THEN "test_begin" ELSE "merge"
                  /\ UNCHANGED error
  /\ UNCHANGED iters_done
  /\ UNCHANGED <<config, epoch, cur, it, personalization_mode, frozen_segments,
                 center_back, back, frozen, optimizers, kv, iter_ops, n_train_f1,
                 n_test_f1, last_merge, faults_left>>
  /\ UNCHANGED past_f1
  /\ UNCHANGED sample_keys
  /\ UNCHANGED inference_report

(* -------------------------- merge_model_weights ------------------------ *)
\* a center_back pool without sample-count weights (the unweighted mean)
CenterSampleLen_Unweighted(c) == 1

\* sample_lens of the center_back pool (line 253) and of the back pool (line 277)
CenterSampleLen(c) == train_len[c] * args.kv_factor
BackSampleLen(c) == train_len[c]

\* utils.merge.merge_weights: raises on no states or on weights summing to zero
MergerRaises(states, weights) == Len(states) = 0 \/ SumSeq(weights) = 0

\* utils.merge.merge_weights: the weighted average sum(w_i * s_i) / sum(w_i)
WeightedAverage(states, weights) ==
  LET D == LcmSeq([i \in 1..Len(states) |-> states[i].d])
      num == SumSeq([i \in 1..Len(states) |->
                       weights[i] * states[i].n * (D \div states[i].d)])
  IN Rat(num, SumSeq(weights) * D)

\* a merge that leaves the center_back pool out in personalization mode
MergeCenterEnabled_UntilPersonalized == ~personalization_mode

\* a merge that keeps fusing the back pool in personalization mode
MergeBackEnabled_Always == TRUE

\* the center_back pool is merged on every call (lines 246-267),
\* the back pool only outside personalization mode (line 269)
MergeCenterEnabled == TRUE
MergeBackEnabled == ~personalization_mode

\* a redistribution that reaches the first model only
DistributionTargets_FirstOnly == {1}

\* the models a fused state is loaded into (lines 263-264, 287-288)
DistributionTargets == ClientIds

\* a merge whose exception leaves fit()
AfterMergeError_Fatal == [pc |-> "aborted", error |-> "MergeError"]

\* lines 266-267, 290-291: the exception of a pool is printed and the call goes on
AfterMergeError == [pc |-> "test_begin", error |-> "none"]

\* A fault of the environment inside one pool: at = 0, merge_weights raises;
\* at = k >= 1, load_state_dict of the k-th model raises; NoFault, nothing raises.
NoFault == [pool |-> "none", at |-> -1]
MergeFaults == [pool : {"center", "back"}, at : 0..Len(client_ids)]

\* one pool of merge_model_weights: collect, merge, distribute
PoolOutcome(enabled, states, lens, old, at) ==
  IF ~enabled
    THEN [pool |-> {}, pre |-> <<>>, err |-> FALSE, got |-> {}, new |-> old]
    ELSE LET raises == MergerRaises(states, lens) \/ at = 0
             fused == WeightedAverage(states, lens)
             got == IF raises THEN {}
                    ELSE IF at >= 1 THEN {c \in DistributionTargets : c < at}
                    ELSE DistributionTargets
         IN [pool |-> ClientIds, pre |-> states, err |-> raises \/ at >= 1,
             got |-> got,
             new |-> [c \in ClientIds |-> IF c \in got THEN fused ELSE old[c]]]

\* merge_model_weights, lines 235-294
MergeModelWeights(f) ==
  /\ pc = "merge"
  /\ LET co == PoolOutcome(MergeCenterEnabled,
                           [i \in ClientIds |-> center_back[i]],
                           [i \in ClientIds |-> CenterSampleLen(i)],
                           center_back,
                           IF f.pool = "center" THEN f.at ELSE -1)
         bo == PoolOutcome(MergeBackEnabled,
                           [i \in ClientIds |-> back[i]],
                           [i \in ClientIds |-> BackSampleLen(i)],
                           back,
                           IF f.pool = "back" THEN f.at ELSE -1)
     IN /\ center_back' = co.new
        /\ back' = bo.new
        /\ last_merge' = [epoch |-> epoch, cpool |-> co.pool, bpool |-> bo.pool,
                          cpre |-> co.pre, bpre |-> bo.pre, cerr |-> co.err,
                          berr |-> bo.err, cgot |-> co.got, bgot |-> bo.got]
        /\ pc' = IF co.err \/ bo.err THEN AfterMergeError.pc ELSE "test_begin"
        /\ error' = IF co.err \/ bo.err THEN AfterMergeError.error ELSE error
  /\ UNCHANGED <<config, epoch, cur, it, personalization_mode, frozen_segments,
                 frozen, optimizers, kv, iter_ops, metrics>>
  /\ UNCHANGED scores

Merge ==
  /\ MergeModelWeights(NoFault)
  /\ UNCHANGED faults_left
  /\ UNCHANGED past_f1
  /\ UNCHANGED sample_keys
  /\ UNCHANGED inference_report

(* ----------------------------- test_one_epoch -------------------------- *)
TestOps == <<"forward_front_key_value_test", "forward_center_front_test",
             "forward_center_back", "forward_back", "calculate_loss",
             "calculate_test_metric">>

\* client.num_test_iterations, line 529
NumTestIterations(c) == LenLoader(test_len[c], BatchSize)

\* test_one_epoch lines 514-520
TestBegin ==
  /\ pc = "test_begin"
  /\ n_test_f1' = n_test_f1 + 1
  /\ past_f1' = PastAfterNewEpoch("test", n_test_f1)
  /\ client_f1' = [c \in ClientIds |-> [client_f1[c] EXCEPT !.test = RatInt(0)]]
  /\ overall_f1' = [overall_f1 EXCEPT !.test = RatInt(0)]
  /\ iters_done' = [c \in ClientIds |-> [iters_done[c] EXCEPT !.test = 0]]
  /\ cur' = 1
  /\ it' = 0
  /\ pc' = "test_iter"
  /\ UNCHANGED <<config, epoch, error, personalization_mode, frozen_segments,
                 center_back, back, frozen, optimizers, kv, iter_ops, n_train_f1,
                 finalized, last_merge, faults_left>>
  /\ UNCHANGED sample_keys
  /\ UNCHANGED inference_report

\* one iteration of test_one_epoch, lines 532-559
TestIter ==
  /\ pc = "test_iter"
  /\ it < NumTestIterations(cur)
  /\ IF CacheReady(cur, "test")
       THEN /\ back' = IF TestStepApplies /\ BackStepApplies(cur)
                         THEN [back EXCEPT ![cur] = RatAdd(@, BackGrad(cur))]
                         ELSE back
            /\ center_back' = IF TestStepApplies /\ CenterStepApplies(cur)
                                THEN [center_back EXCEPT ![cur] = RatAdd(@, CenterGrad(cur))]
                                ELSE center_back
            /\ iter_ops' = TestOps
            /\ client_f1' = [client_f1 EXCEPT ![cur].test =
                                RatAdd(@, RatInt(F1Score(cur, it, "test")))]
            /\ iters_done' = [iters_done EXCEPT ![cur].test = @ + 1]
            /\ it' = it + 1
            /\ UNCHANGED <<pc, error>>
       ELSE /\ iter_ops' = SubSeq(TestOps, 1, 2)
            /\ error' = "KeyError"
            /\ pc' = "aborted"
            /\ UNCHANGED <<back, center_back, it, client_f1, iters_done>>
  /\ kv_store' = CacheAfterIteration(cur, "test")
  /\ sample_keys' = [sample_keys EXCEPT ![cur].test =
                       KeysAfterIteration(cur, it, "test")]
  /\ UNCHANGED overall_f1
  /\ UNCHANGED <<config, epoch, cur, personalization_mode, frozen_segments,
                 frozen, optimizers, kv_flag, kv_test_flag, num_iterations,
                 populate_calls, metrics, last_merge, faults_left>>
  /\ UNCHANGED past_f1
  /\ UNCHANGED <<sc_kv_flag, sc_kv_test_flag>>
  /\ UNCHANGED inference_report

\* test_one_epoch lines 525-532: the next participant, or the end of the loops
TestLoop ==
  /\ pc = "test_iter"
  /\ it >= NumTestIterations(cur)
  /\ IF cur < Len(client_ids)
       THEN /\ cur' = cur + 1
            /\ it' = 0
            /\ pc' = "test_iter"
       ELSE /\ cur' = 0
            /\ it' = 0
            /\ pc' = "test_metrics"
  /\ UNCHANGED <<config, epoch, error, personalization_mode, frozen_segments,
                 center_back, back, frozen, optimizers, kv, iter_ops, metrics,
                 last_merge, faults_left>>
  /\ UNCHANGED scores
  /\ UNCHANGED past_f1
  /\ UNCHANGED sample_keys
  /\ UNCHANGED inference_report

\* test_one_epoch lines 562-589; len(test_DataLoader) = 0 divides the integer 0
TestMetrics ==
  /\ pc = "test_metrics"
  /\ LET o == FinalizeF1("test", [c \in ClientIds |-> NumTestIterations(c)])
     IN /\ client_f1' = o.client_f1
        /\ overall_f1' = o.overall_f1
        /\ IF o.raised
             THEN /\ error' = "ZeroDivisionError"
                  /\ pc' = "aborted"
                  /\ UNCHANGED finalized
             ELSE /\ finalized' = [finalized EXCEPT !.test = epoch]
                  /\ pc' = "inference"
                  /\ UNCHANGED error
  /\ UNCHANGED iters_done
  /\ UNCHANGED <<config, epoch, cur, it, personalization_mode, frozen_segments,
                 center_back, back, frozen, optimizers, kv, iter_ops, n_train_f1,
                 n_test_f1, last_merge, faults_left>>
  /\ UNCHANGED past_f1
  /\ UNCHANGED sample_keys
  /\ UNCHANGED inference_report

\* lines 741-743: accuracy = correct / total of participant c on the main test set
Accuracy(c) == Rat(1, c)

\* line 756: the printed average is avg_acc / 10
InferenceDivisor == 10

\* inference(), lines 708-756: the accuracies of all participants are summed
\* (line 754) and the sum is divided for the printed average
InferenceAverage ==
  RatDiv(RatSum([c \in ClientIds |-> Accuracy(c)]), InferenceDivisor)

\* fit lines 819-820 and the loop step of line 786
Inference ==
  /\ pc = "inference"
  /\ inference_report' = [evaluated |-> Len(client_ids), average |-> InferenceAverage]
  /\ epoch' = epoch + 1
  /\ pc' = "epoch_head"
  /\ UNCHANGED <<config, cur, it, error, personalization_mode, frozen_segments,
                 center_back, back, frozen, optimizers, kv, iter_ops, metrics,
                 last_merge, faults_left>>
  /\ UNCHANGED scores
  /\ UNCHANGED past_f1
  /\ UNCHANGED sample_keys

\* fit lines 823-825: overall_f1['train'][max_f1['epoch']] with max_f1['epoch'] = -1
\* raises IndexError on the empty list
FinalMetrics ==
  /\ pc = "final_metrics"
  /\ IF n_train_f1 = 0
       THEN /\ error' = "IndexError"
            /\ pc' = "aborted"
       ELSE /\ pc' = "done"
            /\ UNCHANGED error
  /\ UNCHANGED <<config, epoch, cur, it, personalization_mode, frozen_segments,
                 center_back, back, frozen, optimizers, kv, iter_ops, metrics,
                 last_merge, faults_left>>
  /\ UNCHANGED scores
  /\ UNCHANGED past_f1
  /\ UNCHANGED sample_keys
  /\ UNCHANGED inference_report

(* --------------------------- environment faults ------------------------ *)
\* a handler that skips the failed iteration and goes on with the next one
OnIterationError_Skip == [pc |-> pc, error |-> "none", it |-> it + 1]

\* an exception raised by a forward/backward operation leaves train_one_epoch,
\* test_one_epoch and fit(): no handler encloses lines 429-459 or 525-559
OnIterationError == [pc |-> "aborted", error |-> "IterationError", it |-> it]

TrainIterRaises ==
  /\ pc = "train_iter"
  /\ IterationsLeft(cur)
  /\ CacheReady(cur, "train")
  /\ faults_left > 0
  /\ \E k \in 1..NumTrainFwdBwd : iter_ops' = SubSeq(TrainOps, 1, k)
  /\ pc' = OnIterationError.pc
  /\ error' = OnIterationError.error
  /\ it' = OnIterationError.it
  /\ faults_left' = faults_left - 1
  /\ UNCHANGED <<config, epoch, cur, personalization_mode, frozen_segments,
                 center_back, back, frozen, optimizers, kv, metrics, last_merge>>
  /\ UNCHANGED scores
  /\ UNCHANGED past_f1
  /\ UNCHANGED sample_keys
  /\ UNCHANGED inference_report

TestIterRaises ==
  /\ pc = "test_iter"
  /\ it < NumTestIterations(cur)
  /\ CacheReady(cur, "test")
  /\ faults_left > 0
  /\ \E k \in 1..NumTestFwd : iter_ops' = SubSeq(TestOps, 1, k)
  /\ pc' = OnIterationError.pc
  /\ error' = OnIterationError.error
  /\ it' = OnIterationError.it
  /\ faults_left' = faults_left - 1
  /\ UNCHANGED <<config, epoch, cur, personalization_mode, frozen_segments,
                 center_back, back, frozen, optimizers, kv, metrics, last_merge>>
  /\ UNCHANGED scores
  /\ UNCHANGED past_f1
  /\ UNCHANGED sample_keys
  /\ UNCHANGED inference_report

\* merge_weights or load_state_dict raises inside one pool of merge_model_weights
MergeFault ==
  /\ faults_left > 0
  /\ \E f \in MergeFaults :
       /\ f.pool = "back" => MergeBackEnabled
       /\ MergeModelWeights(f)
  /\ faults_left' = faults_left - 1
  /\ UNCHANGED past_f1
  /\ UNCHANGED sample_keys
  /\ UNCHANGED inference_report

(* ----------------------------- specifications -------------------------- *)
Next ==
  \/ FitBegin
  \/ EpochHead
  \/ StoreTrainBegin
  \/ StoreTrainClient
  \/ StoreTestBegin
  \/ StoreTestClient
  \/ NoPersonalize
  \/ Personalize
  \/ PersonalizeNoCheckpoint
  \/ TrainBegin
  \/ TrainIter
  \/ TrainLoop
  \/ TrainMetrics
  \/ Merge
  \/ TestBegin
  \/ TestIter
  \/ TestLoop
  \/ TestMetrics
  \/ Inference
  \/ FinalMetrics

Spec == Init /\ [][Next]_vars

NextFault ==
  \/ Next
  \/ TrainIterRaises
  \/ TestIterRaises
  \/ MergeFault

\* The runs with environment faults: the key-value store is populated once
\* (kv_refresh_rate = 0) with kv_factor = 1; every other input is as in Init.
InitFault ==
  /\ Init
  /\ args.kv_refresh_rate = 0
  /\ args.kv_factor = 1

SpecFault == InitFault /\ [][NextFault]_vars

\* The runs with any segment module: one that lacks a factory function leaves
\* participants without segments; every other input is as in Init.
InitGaps ==
  /\ Setup
  /\ pc = "fit"

SpecGaps == InitGaps /\ [][Next]_vars

\* merge_model_weights called on the constructed trainer: the method reads
\* nothing but the models and the training sets of the two mappings
InitMerge ==
  /\ Setup
  /\ sc_clients.defined
  /\ built_segments = AllSegments
  /\ ~pooling_mode
  /\ pc = "merge"

NextMerge == Merge

SpecMerge == InitMerge /\ [][NextMerge]_vars

(* ------------------------------- claims -------------------------------- *)
AllEqual(f) == \A c \in DOMAIN f : \A d \in DOMAIN f : f[c] = f[d]

\* r is the weighted mean of the states pre under the weights w:
\* the weighted deviations sum(w_i * (pre_i - r)) cancel
IsWeightedMean(r, pre, w) ==
  /\ SumSeq(w) > 0
  /\ LET D == LcmSeq([i \in 1..Len(pre) |-> pre[i].d])
     IN SumSeq([i \in 1..Len(pre) |->
                  w[i] * (pre[i].n * r.d - r.n * pre[i].d) * (D \div pre[i].d)]) = 0

\* C1: with kv_refresh_rate = 0 the key-value store is populated exactly once,
\* before the epoch loop, and never again; with kv_refresh_rate # 0 it is
\* populated at the start of exactly the epochs e < epochs with
\* e mod kv_refresh_rate = 0, once each and in order.
RefreshTested ==
  {e \in 0..(args.epochs - 1) :
     e < epoch \/ (e = epoch /\ pc \notin {"fit", "epoch_head"})}

ExpectedPopulateCalls ==
  IF args.kv_refresh_rate = 0
    THEN IF pc = "fit" THEN <<>> ELSE <<-1>>
    ELSE LET Due(e) == e \in RefreshTested /\ e % args.kv_refresh_rate = 0
         IN SelectSeq([i \in 1..args.epochs |-> i - 1], Due)

C1_RefreshSchedule == populate_calls = ExpectedPopulateCalls

C1_Witness ==
  /\ pc = "done"
  /\ args.kv_refresh_rate = 2
  /\ args.epochs = 3
  /\ populate_calls = <<0, 2>>

\* C2: whenever a training or testing iteration is about to run, the train and
\* the test population of every participant have completed in the
\* populate_key_value_store call of the current refresh window.
WindowStart(e) ==
  IF args.kv_refresh_rate = 0 THEN -1 ELSE e - (e % args.kv_refresh_rate)

C2_PopulationPrecedesConsumption ==
  pc \in {"train_iter", "test_iter"} =>
    \A c \in ClientIds :
      /\ kv_store[c].train.tag = WindowStart(epoch)
      /\ kv_store[c].train.puts >= LenLoader(train_len[c], BatchSize)
      /\ kv_store[c].test.tag = WindowStart(epoch)
      /\ kv_store[c].test.puts >= LenLoader(test_len[c], BatchSize)

C2_Witness ==
  /\ pc = "train_iter"
  /\ args.kv_refresh_rate = 2
  /\ epoch = 1
  /\ Len(client_ids) = 2
  /\ cur = 2
  /\ \A c \in ClientIds : kv_store[c].train.tag = 0 /\ kv_store[c].test.tag = 0

\* C3: after a training epoch outside personalization and pooling mode every
\* center_back state is the average of the post-local-step center_back states
\* weighted by len(train_dataset) * kv_factor, and every back state the average
\* of the post-local-step back states weighted by len(train_dataset).
C3_WeightedFusion ==
  (pc = "test_begin" /\ ~pooling_mode /\ ~personalization_mode) =>
    /\ last_merge.epoch = epoch
    /\ \A c \in ClientIds :
         /\ IsWeightedMean(center_back[c], last_merge.cpre,
                           [i \in ClientIds |-> train_len[i] * args.kv_factor])
         /\ IsWeightedMean(back[c], last_merge.bpre,
                           [i \in ClientIds |-> train_len[i]])

\* sample counts 1 and 2, post-step center_back states 2 and 6: fused 14/3, mean 4
C3_Witness ==
  /\ pc = "test_begin"
  /\ ~pooling_mode /\ ~personalization_mode
  /\ Len(client_ids) = 2
  /\ args.kv_factor = 2
  /\ train_len = <<1, 2>>
  /\ last_merge.epoch = epoch
  /\ last_merge.cpre = <<RatInt(2), RatInt(6)>>
  /\ center_back[1] = [n |-> 14, d |-> 3]
  /\ center_back[2] = [n |-> 14, d |-> 3]

\* C4 as stated: from the personalization epoch onward no center_back state
\* enters a merge pool or is overwritten by a fused state.
C4_Original_NoCenterFusionAfterThreshold ==
  (personalization_mode /\ last_merge.epoch >= args.p_epoch) =>
    (last_merge.cpool = {} /\ last_merge.cgot = {})

\* C4 amended: merge_model_weights fuses center_back at the end of every
\* training epoch of a non-pooling run, before the personalization threshold
\* and from it onward alike: every counterpart's center_back state enters the
\* pool and is overwritten by the fused state.
C4_CenterFusionEveryEpoch ==
  (pc = "test_begin" /\ ~pooling_mode) =>
    /\ last_merge.epoch = epoch
    /\ last_merge.cpool = ClientIds
    /\ last_merge.cgot = ClientIds
    /\ AllEqual(center_back)
    /\ \A c \in ClientIds :
         IsWeightedMean(center_back[c], last_merge.cpre,
                        [i \in ClientIds |-> train_len[i] * args.kv_factor])

C4_Witness ==
  /\ pc = "test_begin"
  /\ personalization_mode
  /\ epoch = args.p_epoch
  /\ Len(client_ids) = 2
  /\ last_merge.epoch = epoch
  /\ last_merge.cpool = {1, 2}
  /\ last_merge.cpre[1] # last_merge.cpre[2]
  /\ center_back[1] # last_merge.cpre[1]

\* C5 as stated: after personalization has been entered the back states of all
\* participants are still merged and redistributed at the end of every
\* training epoch.
C5_Original_BackFusionContinues ==
  (pc = "test_begin" /\ ~pooling_mode /\ personalization_mode) =>
    (last_merge.epoch = epoch /\ last_merge.bpool = ClientIds)

\* C5 amended: fusion of back stops with personalization: at the end of a
\* training epoch of a non-pooling run the back states are merged and
\* redistributed only while personalization_mode is false; from the threshold
\* onward no back state enters a pool and the merge leaves every back state
\* as it was.
C5_BackFusionStops ==
  /\ [](  (pc = "test_begin" /\ ~pooling_mode) =>
            /\ last_merge.epoch = epoch
            /\ IF personalization_mode
                 THEN last_merge.bpool = {} /\ last_merge.bgot = {}
                 ELSE /\ last_merge.bpool = ClientIds
                      /\ last_merge.bgot = ClientIds
                      /\ AllEqual(back))
  /\ [][(pc = "merge" /\ personalization_mode) => back' = back]_vars

C5_Witness ==
  /\ pc = "test_begin"
  /\ personalization_mode
  /\ ~pooling_mode
  /\ Len(client_ids) = 2
  /\ last_merge.epoch = epoch
  /\ last_merge.bpool = {}
  /\ back[1] # back[2]

\* C6 as stated: while the freeze flag is set the center_back optimizer step
\* and zero-grad are skipped in every training iteration.
C6_Original_CenterStepSkipped ==
  (pc = "train_iter" /\ it > 0 /\ frozen[cur]) =>
    \A k \in 1..Len(iter_ops) :
      iter_ops[k] \notin {"center_optimizer_step", "center_optimizer_zero_grad"}

\* C6 amended: while the freeze flag is set, train_one_epoch still calls the
\* center_back optimizer's step and zero_grad in every training iteration, and
\* no training iteration changes that counterpart's center_back parameters.
C6_FrozenCenterUnchanged ==
  /\ []((pc = "train_iter" /\ it > 0 /\ frozen[cur]) => iter_ops = TrainOps)
  /\ [][(pc = "train_iter" /\ frozen[cur]) => center_back' = center_back]_vars

C6_Witness ==
  /\ pc = "train_iter"
  /\ it > 0
  /\ frozen[cur]
  /\ iter_ops = TrainOps
  /\ epoch > args.p_epoch

\* C7: personalization_mode is false until the personalization test of the
\* epoch args.p_epoch (with args.personalize set and p_epoch < epochs), true
\* from then on and never false again; every counterpart is frozen before the
\* training of that epoch begins; otherwise it is never entered.
PersonalizationEntered ==
  /\ args.personalize
  /\ args.p_epoch < args.epochs
  /\ \/ epoch > args.p_epoch
     \/ /\ epoch = args.p_epoch
        /\ \/ pc \in {"train_begin", "train_iter", "train_metrics", "merge",
                      "test_begin", "test_iter", "test_metrics", "inference"}
           \* a run that ended in the population of this epoch (a population
           \* flag is still set) never reached the personalization test
           \/ /\ pc = "aborted"
              /\ \A c \in ClientIds : kv_flag[c] = 0 /\ kv_test_flag[c] = 0

C7_PersonalizationOneWay ==
  /\ [](/\ personalization_mode = PersonalizationEntered
        /\ (personalization_mode /\ pc # "aborted") => \A c \in ClientIds : frozen[c]
        /\ (\E c \in ClientIds : frozen[c]) => personalization_mode)
  /\ [][personalization_mode => personalization_mode']_vars

C7_Witness ==
  /\ pc = "train_iter"
  /\ personalization_mode
  /\ epoch > args.p_epoch
  /\ \A c \in ClientIds : frozen[c]

\* C8 as stated: a failure while merging or redistributing either pool is
\* never caught and aborts the run.
C8_Original_MergeFailureFatal ==
  (last_merge.cerr \/ last_merge.berr) => (pc = "aborted" /\ error # "none")

\* C8 amended: a WeightMerger failure is not fatal: an error while merging or
\* redistributing either fusion pool is caught and printed inside
\* merge_model_weights, the back pool is still processed after a center_back
\* failure, and the run goes on with the testing epoch and the later epochs.
C8_MergeFailureCaught ==
  [][pc = "merge" =>
       /\ pc' = "test_begin"
       /\ error' = "none"
       /\ epoch' = epoch
       /\ last_merge'.cpool = ClientIds
       /\ ~personalization_mode => last_merge'.bpool = ClientIds]_vars

C8_Witness ==
  /\ pc = "train_iter"
  /\ last_merge.cerr
  /\ last_merge.bpool = ClientIds
  /\ epoch = last_merge.epoch + 1
  /\ error = "none"

\* C9 as stated: when training resumes after a merge every ServerCounterpart
\* holds the same fused center_back state and, when back was fused, every
\* Participant the same fused back state.
TrainingResumes ==
  /\ pc = "train_iter"
  /\ cur = 1
  /\ it = 0
  /\ epoch >= 1
  /\ last_merge.epoch = epoch - 1

C9_Original_AtomicRedistribution ==
  TrainingResumes =>
    /\ AllEqual(center_back)
    /\ last_merge.bpool # {} => AllEqual(back)

\* C9 amended: a pool whose merge and redistribution completed without error
\* leaves the same fused state in every model, and training resumes from it
\* unless load_best_models replaces the segments first (the personalization
\* epoch); after a caught error only the models loaded before the error hold
\* the fused state, the others keep their own, and training resumes all the
\* same.
Reloaded == args.personalize /\ epoch = args.p_epoch

FusedOrKept(state, pre, got, w) ==
  \A c \in ClientIds :
    IF c \in got THEN IsWeightedMean(state[c], pre, w) ELSE state[c] = pre[c]

C9_RedistributionUnlessError ==
  (TrainingResumes /\ ~Reloaded) =>
    /\ ~last_merge.cerr => last_merge.cgot = ClientIds /\ AllEqual(center_back)
    /\ FusedOrKept(center_back, last_merge.cpre, last_merge.cgot,
                   [i \in ClientIds |-> train_len[i] * args.kv_factor])
    /\ (last_merge.bpool # {} /\ ~last_merge.berr) =>
         last_merge.bgot = ClientIds /\ AllEqual(back)
    /\ last_merge.bpool # {} =>
         FusedOrKept(back, last_merge.bpre, last_merge.bgot,
                     [i \in ClientIds |-> train_len[i]])

C9_Witness ==
  /\ TrainingResumes
  /\ ~Reloaded
  /\ Len(client_ids) = 2
  /\ ~last_merge.cerr /\ ~last_merge.berr
  /\ last_merge.cpre[1] # last_merge.cpre[2]
  /\ center_back[1] = center_back[2]
  /\ last_merge.bpool = {1, 2}
  /\ back[1] = back[2]

\* C10 as stated: an exception of a forward/backward operation skips only the
\* current iteration, it never ends the run.
IterationRaised == iter_ops \notin {<<>>, TrainOps, TestOps}

C10_Original_IterationIsolated ==
  IterationRaised => (pc # "aborted" /\ error = "none")

\* C10 amended: there is no partial-failure isolation: an exception raised by a
\* forward/backward operation of a training or testing iteration is not caught
\* by train_one_epoch, test_one_epoch or fit(); it ends the run, and neither
\* the remaining iterations and participants nor the metric finalization and
\* the merge of that epoch execute.
C10_IterationErrorAborts ==
  IterationRaised =>
    /\ pc = "aborted"
    /\ error \in {"IterationError", "KeyError"}
    /\ finalized.test < epoch
    /\ iter_ops[1] = TrainOps[1] =>
         /\ finalized.train < epoch
         /\ last_merge.epoch < epoch
         /\ n_test_f1 = epoch

C10_Witness ==
  /\ IterationRaised
  /\ pc = "aborted"
  /\ error = "IterationError"
  /\ iter_ops[1] = TrainOps[1]
  /\ Len(client_ids) = 2
  /\ cur = 1
  /\ it = 0
  /\ num_iterations[1] = 2
  /\ finalized.train < epoch

\* C11 as stated: in every merge a participant whose training set has no
\* samples is left out of both pools, and the weights passed to the merger sum
\* to a positive total.
MergeRan == last_merge.epoch >= 0

KeySet(keys) == {keys[i] : i \in 1..Len(keys)}

C12_Original_MappingsPaired ==
  /\ sc_clients.defined
  /\ KeySet(sc_clients.keys) = KeySet(client_ids)
  /\ \A i \in 1..Len(sc_clients.keys) :
       Cardinality({j \in 1..Len(client_ids) : client_ids[j] = sc_clients.keys[i]}) = 1

\* C13 as stated: the participant ids are pairwise distinct and the mapping
\* holds exactly num_clients participants.
C13_Original_IdsUnique == Cardinality(KeySet(client_ids)) = num_clients

\* C14 as stated: after the metrics of an epoch are finalized, every
\* participant's epoch aggregate is the sum of its per-iteration scores divided
\* by the number of iterations executed, and the overall entry is the sum of
\* the aggregates divided by the number of participants in the mapping.
RECURSIVE ScoreSum(_, _, _)
ScoreSum(c, mode, k) ==
  IF k = 0 THEN 0 ELSE F1Score(c, k - 1, mode) + ScoreSum(c, mode, k - 1)

EpochAverages(mode) ==
  /\ \A c \in ClientIds :
       /\ iters_done[c][mode] > 0
       /\ client_f1[c][mode] =
            Rat(ScoreSum(c, mode, iters_done[c][mode]), iters_done[c][mode])
  /\ overall_f1[mode] =
       RatDiv(RatSum([c \in ClientIds |-> client_f1[c][mode]]), Len(client_ids))

C14_Original_MetricAveraging ==
  /\ (finalized.train = epoch /\ pc # "aborted") => EpochAverages("train")
  /\ (finalized.test = epoch /\ pc # "aborted") => EpochAverages("test")

\* the same statement for the runs whose drawn ids are pairwise distinct
C14_DistinctIdsAveraging ==
  Len(client_ids) = num_clients => C14_Original_MetricAveraging

\* C15: test_one_epoch is purely evaluative: none of its steps changes a back
\* or center_back state or runs a merge, and a testing iteration executes no
\* backward pass and no optimizer step.
InTestEpoch == pc \in {"test_begin", "test_iter", "test_metrics"}

TrainingOnlyOps ==
  {"loss_backward", "backward_center", "step_back", "zero_grad_back",
   "center_optimizer_step", "center_optimizer_zero_grad"}

C15_TestEpochEvaluative ==
  /\ [](pc = "test_iter" /\ it > 0 =>
          \A i \in 1..Len(iter_ops) : iter_ops[i] \notin TrainingOnlyOps)
  /\ [][InTestEpoch =>
          /\ back' = back
          /\ center_back' = center_back
          /\ last_merge' = last_merge]_vars

C15_Witness ==
  /\ pc = "inference"
  /\ Len(client_ids) = 2
  /\ ~personalization_mode
  /\ finalized.test = epoch
  /\ iter_ops = TestOps
  /\ \A c \in ClientIds : iters_done[c].test > 0 /\ back[c] # RatInt(0)

\* C16: outside populate_key_value_store the caches are reused unchanged: no
\* training or testing step writes a cache entry; with kv_refresh_rate = 2 the
\* caches used in epoch 0 and epoch 1 are those populated at epoch 0, and
\* epoch 2 uses caches repopulated at epoch 2.
InEpochBody ==
  pc \in {"train_begin", "train_iter", "train_metrics", "merge", "test_begin",
          "test_iter", "test_metrics", "inference"}

C16_CachesReusedBetweenRefreshes ==
  /\ [](args.kv_refresh_rate = 2 /\ InEpochBody =>
          \A c \in ClientIds :
            /\ kv_store[c].train.tag = (IF epoch < 2 THEN 0 ELSE 2)
            /\ kv_store[c].test.tag = (IF epoch < 2 THEN 0 ELSE 2))
  /\ [][InEpochBody => kv_store' = kv_store]_vars

C16_Witness ==
  /\ args.kv_refresh_rate = 2
  /\ args.epochs = 3
  /\ epoch = 1
  /\ pc = "inference"
  /\ populate_calls = <<0>>
  /\ iter_ops = TestOps
  /\ \A c \in ClientIds :
       /\ iters_done[c].train > 0
       /\ iters_done[c].test > 0
       /\ kv_store[c].train = [tag |-> 0, puts |-> PopulationSteps(c, "train")]

\* C17 as stated: at every refresh boundary the train and test caches of a
\* participant are cleared before they are repopulated: when the population
\* of a participant's cache starts, the cache is empty.
C17_Original_ClearedBeforeRepopulation ==
  /\ pc = "kv_train" => kv_store[cur].train = EmptyCache
  /\ pc = "kv_test" => kv_store[cur].test = EmptyCache

\* C18 as stated: every population writes, for every participant, kv_factor
\* times the batches of one pass into the train cache and into the test cache.
Populated(c, mode) == kv_store[c][mode].tag # EmptyCache.tag

C18_Original_FactorPassesBothCaches ==
  \A c \in ClientIds :
    /\ Populated(c, "train") =>
         kv_store[c].train.puts = args.kv_factor * LenLoader(train_len[c], BatchSize)
    /\ Populated(c, "test") =>
         kv_store[c].test.puts = args.kv_factor * LenLoader(test_len[c], BatchSize)

\* the train half of C18, which the population does satisfy
C18_TrainCacheFactorPasses ==
  \A c \in ClientIds :
    Populated(c, "train") =>
      kv_store[c].train.puts = args.kv_factor * LenLoader(train_len[c], BatchSize)

\* C19: every training iteration of a participant executes front,
\* center_front, center_back, back, loss, backward from the loss,
\* backward_center, step and zero of back, step and zero of center_back in
\* this order; the iterations of a participant run one after the other, and a
\* participant's iterations are all done before the next participant starts.
ProtocolOrder ==
  <<"forward_front_key_value", "forward_center_front", "forward_center_back",
    "forward_back", "calculate_loss", "loss_backward", "backward_center",
    "step_back", "zero_grad_back", "center_optimizer_step",
    "center_optimizer_zero_grad">>

C19_IterationProtocolOrder ==
  /\ [](pc = "train_iter" /\ it > 0 =>
          /\ Len(iter_ops) > Len(ProtocolOrder)
          /\ SubSeq(iter_ops, 1, Len(ProtocolOrder)) = ProtocolOrder)
  /\ [][(pc = "train_iter" /\ pc' = "train_iter") =>
          \/ /\ cur' = cur
             /\ it' = it + 1
             /\ iters_done'[cur].train = iters_done[cur].train + 1
             /\ \A c \in ClientIds \ {cur} : iters_done'[c] = iters_done[c]
          \/ /\ cur' = cur + 1
             /\ it' = 0
             /\ iters_done[cur].train = num_iterations[cur]
             /\ iters_done' = iters_done]_vars

C19_Witness ==
  /\ pc = "train_iter"
  /\ Len(client_ids) = 2
  /\ cur = 2
  /\ it = 2
  /\ iters_done[1].train = 2
  /\ iters_done[2].train = 2
  /\ iter_ops = TrainOps

\* C20: the merge of a training epoch starts only after every participant has
\* executed all of its training iterations and the epoch metrics have been
\* finalized, and no training iteration of that epoch runs once it started.
C20_MergeAfterAllIterations ==
  /\ [](pc = "merge" =>
          /\ finalized.train = epoch
          /\ \A c \in ClientIds :
               /\ num_iterations[c] = LenLoader(train_len[c], BatchSize)
               /\ iters_done[c].train = num_iterations[c])
  /\ [][(pc = "merge" \/ last_merge.epoch = epoch) =>
          \A c \in ClientIds : iters_done'[c].train = iters_done[c].train]_vars

C20_Witness ==
  /\ pc = "test_begin"
  /\ last_merge.epoch = epoch
  /\ Len(client_ids) = 2
  /\ finalized.train = epoch
  /\ iters_done[1].train = 2
  /\ iters_done[2].train = 1

\* C21 as stated: a pooling run has exactly one participant, keyed
\* 'pooled_client', with a ServerCounterpart under the same key, whatever
\* number_of_clients is, and merge_model_weights is never called.
C21_Original_PoolingSingleParticipant ==
  pooling_mode =>
    /\ client_ids = <<PooledClient>>
    /\ sc_clients.defined
    /\ sc_clients.keys = <<PooledClient>>
    /\ last_merge = NoMerge
    /\ pc # "merge"

\* the same statement for the runs whose segment module was imported
C21_ImportedPoolingSingleParticipant ==
  sc_clients.defined => C21_Original_PoolingSingleParticipant

\* C22 as stated: for every epoch count E >= 0 fit() runs E training epochs,
\* each followed by the testing epoch of the same index, and returns
\* normally. Stated for the runs with imported segments, non-empty training
\* sets and personalization off, which no other exception can end.
UndisturbedRun ==
  /\ sc_clients.defined
  /\ built_segments = AllSegments
  /\ ~args.personalize
  /\ \A c \in ClientIds : train_len[c] > 0

C22_Original_RunsEpochsAndReturns ==
  UndisturbedRun =>
    /\ pc # "aborted"
    /\ n_test_f1 \in {n_train_f1, n_train_f1 - 1}
    /\ n_train_f1 <= args.epochs
    /\ pc = "done" => (n_train_f1 = args.epochs /\ n_test_f1 = args.epochs)

\* the same statement for E >= 1
C22_PositiveEpochsRunAndReturn ==
  args.epochs >= 1 => C22_Original_RunsEpochsAndReturns

\* C23 as stated: at every step of fit() every participant's front parameters
\* and every counterpart's center_front parameters equal their values at the
\* end of setup.
C23_Original_FrozenSegmentsKeepSetupValues ==
  \A c \in ClientIds :
    /\ front[c] = RatInt(0)
    /\ center_front[c] = RatInt(0)

\* C23, amended: no step of population, training, testing or merging modifies
\* front or center_front; they change only at the entry into personalization,
\* where load_best_models replaces them.
C23_FrozenChangeOnlyAtPersonalization ==
  [][(front' # front \/ center_front' # center_front) =>
       /\ pc = "personalize"
       /\ PersonalizeDue(epoch)
       /\ pc' = "train_begin"
       /\ personalization_mode']_vars

\* a run that replaced the frozen segments at the personalization epoch and
\* went on training, testing and merging with them
C23_Witness ==
  /\ Len(client_ids) = 2
  /\ personalization_mode
  /\ front[1] = RatInt(5)
  /\ center_front[2] = RatInt(5)
  /\ last_merge.epoch > args.p_epoch
  /\ iters_done[1].test > 0
  /\ pc = "done"

\* C24 as stated: a participant whose segment initialization failed is absent
\* from the Participant and ServerCounterpart mappings of the run, so every
\* participant of the mappings holds its four segments.
C24_Original_FailedParticipantsExcluded ==
  \A c \in ClientIds : built_segments = AllSegments

\* the same statement for the runs that reach an iteration
C24_IteratingParticipantsComplete ==
  (\E c \in ClientIds : iters_done[c].train + iters_done[c].test > 0) =>
    C24_Original_FailedParticipantsExcluded

\* number of entries of a metric list of a mode, from its earlier entries
ListLen(earlier, mode) ==
  Len(earlier) + (IF (IF mode = "train" THEN n_train_f1 ELSE n_test_f1) > 0 THEN 1 ELSE 0)

MetricLists ==
  {[mode |-> m, at |-> c] : m \in {"train", "test"}, c \in {0} \cup ClientIds}

\* the earlier entries of a list: at = 0 is overall_f1, at = c is participant c
Earlier(l) ==
  IF l.at = 0 THEN past_f1.overall[l.mode] ELSE past_f1.client[l.at][l.mode]

\* C25: after k completed epochs every participant's train_f1 and test_f1 and
\* both overall_f1 lists have exactly k entries, and no step changes an entry
\* of an earlier epoch.
C25_MetricListsAppendOnly ==
  /\ [](pc = "epoch_head" =>
          /\ n_train_f1 = epoch
          /\ n_test_f1 = epoch
          /\ \A l \in MetricLists : ListLen(Earlier(l), l.mode) = epoch)
  /\ [][\A l \in MetricLists :
          /\ Len(Earlier(l)') >= Len(Earlier(l))
          /\ \A i \in 1..Len(Earlier(l)) : Earlier(l)'[i] = Earlier(l)[i]]_vars

\* two completed epochs with two participants: every list holds the entry of
\* the first epoch and the entry of the second
C25_Witness ==
  /\ pc = "epoch_head"
  /\ epoch = 2
  /\ Len(client_ids) = 2
  /\ Len(past_f1.client[2].train) = 1
  /\ past_f1.client[2].train[1].n > 0
  /\ Len(past_f1.overall.test) = 1
  /\ past_f1.overall.test[1].n > 0

\* C26: every call of merge_model_weights merges the center_back states and
\* gives the result to every counterpart; it merges and distributes the back
\* states only while personalization_mode is false, and in personalization
\* mode it leaves every participant's back state as it was.
C26_MergeAsDocumented ==
  [][pc = "merge" =>
       /\ last_merge'.cpool = ClientIds
       /\ last_merge'.cgot = ClientIds
       /\ \A c \in ClientIds :
            IsWeightedMean(center_back'[c], [i \in ClientIds |-> center_back[i]],
                           [i \in ClientIds |-> train_len[i] * args.kv_factor])
       /\ IF personalization_mode
            THEN /\ back' = back
                 /\ last_merge'.bpool = {}
            ELSE /\ last_merge'.bpool = ClientIds
                 /\ last_merge'.bgot = ClientIds
                 /\ \A c \in ClientIds :
                      IsWeightedMean(back'[c], [i \in ClientIds |-> back[i]],
                                     [i \in ClientIds |-> train_len[i]])]_vars

\* a call in personalization mode on two participants with different states:
\* the center_back states are fused, the back states stay apart
C26_Witness ==
  /\ Len(client_ids) = 2
  /\ pc = "test_begin"
  /\ personalization_mode
  /\ last_merge.epoch = epoch
  /\ last_merge.cgot = {1, 2}
  /\ last_merge.cpre[1] # last_merge.cpre[2]
  /\ center_back[1] = center_back[2]
  /\ last_merge.bpre = <<>>
  /\ back[1] # back[2]

\* the keys of the latest iteration of the running participant are the keys of
\* its own front pass and lie in the cache of the current refresh window
KeysAligned(mode) ==
  LET k == sample_keys[cur][mode]
  IN /\ k.produced = BatchKeys(cur, it - 1, mode)
     /\ k.produced # {}
     /\ k.held = k.produced
     /\ k.held \subseteq k.cached
     /\ kv_store[cur][mode].tag = WindowStart(epoch)

\* C27: in every training iteration the counterpart's batch keys are the keys
\* that the same participant's front pass of that iteration produced, likewise
\* the test keys in every testing iteration, every such key has an entry in the
\* counterpart's cache populated in the current refresh window, and no cache
\* lookup fails.
C27_KeysAlignedAndCached ==
  /\ error # "KeyError"
  /\ (pc = "train_iter" /\ it > 0) => KeysAligned("train")
  /\ (pc = "test_iter" /\ it > 0) => KeysAligned("test")

\* the second training iteration of the second participant in an epoch after
\* the one that populated the cache, with kv_factor passes cached
C27_Witness ==
  /\ Len(client_ids) = 2
  /\ pc = "train_iter"
  /\ cur = 2
  /\ it = 2
  /\ epoch > WindowStart(epoch)
  /\ args.kv_factor = 2
  /\ sample_keys[2].train.held = {1}
  /\ sample_keys[2].train.cached = {0, 1}
  /\ sample_keys[2].test.held = {0}

\* store_forward_mappings_kv is executing
InPopulation == pc \in {"kv_train", "kv_test"}

\* C28: kv_flag and kv_test_flag are 1 on a participant and on its counterpart
\* only inside store_forward_mappings_kv; while fit() runs outside it each
\* participant's flag equals its counterpart's flag, and every iteration of
\* train_one_epoch and test_one_epoch runs with both flags 0 on every
\* participant and counterpart.
C28_FlagsConfinedToPopulation ==
  /\ (pc # "aborted" /\ ~InPopulation) =>
       \A c \in ClientIds :
         /\ kv_flag[c] = sc_kv_flag[c]
         /\ kv_test_flag[c] = sc_kv_test_flag[c]
         /\ kv_flag[c] = 0
         /\ (pc # "kv_test_begin") => (kv_test_flag[c] = 0)
  /\ pc \in {"train_iter", "test_iter"} =>
       \A c \in ClientIds :
         /\ (kv_flag[c] = 0 /\ sc_kv_flag[c] = 0)
         /\ (kv_test_flag[c] = 0 /\ sc_kv_test_flag[c] = 0)

\* inside the population the flags of the participants not yet served are 1;
\* afterwards an iteration runs with every flag 0
C28_Witness ==
  /\ Len(client_ids) = 2
  /\ pc = "train_iter"
  /\ it = 1
  /\ Len(populate_calls) = 2
  /\ \A c \in ClientIds :
       kv_flag[c] + sc_kv_flag[c] + kv_test_flag[c] + sc_kv_test_flag[c] = 0

\* C29 as stated: in every reachable state of fit() each participant's back
\* optimizer updates the parameters of its current back segment and each
\* counterpart's center optimizer those of its current center_back segment,
\* also after load_best_models has replaced the segment objects.
C29_Original_OptimizersBound ==
  \A c \in ClientIds : back_opt_bound[c] /\ center_opt_bound[c]

\* the same statement up to the entry into personalization
C29_BoundUntilPersonalization ==
  ~personalization_mode => C29_Original_OptimizersBound

\* C30 as stated: the average inference score that inference() reports is the
\* sum of the per-participant accuracies divided by the number of participants
\* evaluated.
C30_Original_InferenceAverage ==
  inference_report.evaluated > 0 =>
    inference_report.average =
      RatDiv(RatSum([c \in ClientIds |-> Accuracy(c)]), inference_report.evaluated)

\* what the report is: the sum of the accuracies divided by ten
C30_InferenceSumOverTen ==
  inference_report.evaluated > 0 =>
    /\ inference_report.evaluated = Len(client_ids)
    /\ inference_report.average.n * 10 * LcmSeq([c \in ClientIds |-> Accuracy(c).d]) =
         inference_report.average.d *
           SumSeq([c \in ClientIds |->
                     Accuracy(c).n * (LcmSeq([d \in ClientIds |-> Accuracy(d).d])
                                        \div Accuracy(c).d)])

====
